---- MODULE Spec2Model ----
(***************************************************************************)
(* Model of cpc.geofiles.reading.read_grib: one call is a process that     *)
(* walks through the statements of the function; the local filesystem     *)
(* (temporary .bin files) and the external wgrib/wgrib2 decoder are the    *)
(* environment.                                                            *)
(***************************************************************************)
EXTENDS Integers, Sequences, FiniteSets, TLC

\* ------------------------------------------------------------- bounds
\* number of read_grib calls that may be in flight together
NumCalls == 2
\* largest num_y / num_x of a GeoGrid handed to read_grib
MaxDim == 3

Procs == 1..NumCalls

\* ------------------------------------------------------------- inputs
\* Python's None for the optional grid argument (a grid is <<g>>)
NoGrid == << >>
Grids == {<<[num_y |-> y, num_x |-> x]>> : y \in 1..MaxDim, x \in 1..MaxDim}

GribTypes == {"grib1", "grib2", "netcdf"}
GribVars == {"TMP", "UGRD"}
GribLevels == {"2 m above ground", "850 mb"}
\* grep_fhr: None, the empty string, or a pattern
GrepFhrs == {"None", "", "24 hour fcst"}

\* The records of the grib file the calls read (os.path.isfile(file) true).
Archive ==
  << [var |-> "TMP", level |-> "2 m above ground", fhr |-> "24 hour fcst",
      payload |-> <<1, 2, 3, 4>>],
     [var |-> "UGRD", level |-> "850 mb", fhr |-> "48 hour fcst",
      payload |-> <<11, 12, 13, 14, 15, 16>>] >>

Inputs ==
  [file : {"present", "absent"}, grib_type : GribTypes, grib_var : GribVars,
   grib_level : GribLevels, grid : Grids \cup {NoGrid}, yrev : BOOLEAN,
   grep_fhr : GrepFhrs, debug : BOOLEAN]

\* concurrent grib1 calls on the same existing file, different selectors
ConcInputs ==
  [file : {"present"}, grib_type : {"grib1"}, grib_var : GribVars,
   grib_level : GribLevels, grid : {NoGrid}, yrev : {FALSE},
   grep_fhr : {"None"}, debug : {FALSE}]

NoInput ==
  [file |-> "absent", grib_type |-> "netcdf", grib_var |-> "TMP",
   grib_level |-> "850 mb", grid |-> NoGrid, yrev |-> FALSE,
   grep_fhr |-> "None", debug |-> FALSE]

\* ------------------------------------------------------------- exceptions
NotFound == "ReadingError: Grib file not found"
UnsupportedFormat == "ReadingError: requires grib_type to be grib1 or grib2"
DecodeError == "ReadingError: Couldn't read file"
RecordNotFound == "ReadingError: No grib record found"
NoGridError == "ValueError: The yrev parameter requires that the grid parameter be defined"
ReshapeError == "ValueError: cannot reshape array"
FileNotFoundError == "FileNotFoundError"
\* the ValueErrors of the flip step
InvalidConfiguration == {NoGridError, ReshapeError}

\* ------------------------------------------------------------- pure parts
\* if grep_fhr: grep_fhr_str = grep_fhr else '.*'
GrepFhrStr(grep_fhr) ==
  IF grep_fhr \notin {"None", ""} THEN grep_fhr ELSE ".*"

\* the dispatch with its else branch falling through to wgrib2
WgribProgramNoElse(grib_type) ==
  IF grib_type = "grib1" THEN "wgrib" ELSE "wgrib2"

\* the decoder the call string is built for; "raise" is the else branch
WgribProgram(grib_type) ==
  IF grib_type = "grib1" THEN "wgrib"
  ELSE IF grib_type = "grib2" THEN "wgrib2"
  ELSE "raise"

\* a temp-file name that is the same for every call
Uuid4Fixed(n) == 1

\* str(uuid.uuid4()): a value no earlier call of uuid4 has returned
Uuid4(n) == n + 1

\* grep ":var:" | grep ":level:" | grep -P "fhr" / -match x3
Matches(rec, grib_var, grib_level, grep_fhr_str) ==
  /\ rec.var = grib_var
  /\ rec.level = grib_level
  /\ (grep_fhr_str = ".*" \/ rec.fhr = grep_fhr_str)

RECURSIVE Dump(_, _, _, _)
\* the binary payload the decoder writes for the matched records
Dump(recs, grib_var, grib_level, grep_fhr_str) ==
  IF recs = << >> THEN << >>
  ELSE (IF Matches(Head(recs), grib_var, grib_level, grep_fhr_str)
          THEN Head(recs).payload ELSE << >>)
       \o Dump(Tail(recs), grib_var, grib_level, grep_fhr_str)

Decoded(i) == Dump(Archive, i.grib_var, i.grib_level, GrepFhrStr(i.grep_fhr))

\* the emptiness test left out
IsEmptyNever(d) == FALSE

\* data.size == 0
IsEmpty(d) == Len(d) = 0

\* a reshape that accepts any array holding at least num_y * num_x elements
CanReshapeAtLeast(n, num_y, num_x) == n >= num_y * num_x

\* np.reshape(data, (num_y, num_x)) succeeds
CanReshape(n, num_y, num_x) == n = num_y * num_x

\* np.reshape(data, (num_y, num_x)): row-major rows
Reshape(d, num_y, num_x) ==
  [r \in 1..num_y |-> SubSeq(d, (r - 1) * num_x + 1, r * num_x)]

\* np.flip(data): both axes reversed
FlipBoth(m) ==
  [r \in 1..Len(m) |->
     [c \in 1..Len(m[Len(m) + 1 - r]) |->
        m[Len(m) + 1 - r][Len(m[Len(m) + 1 - r]) + 1 - c]]]

\* np.flipud(data): the rows in reverse order
Flipud(m) == [r \in 1..Len(m) |-> m[Len(m) + 1 - r]]

RECURSIVE Flatten(_)
\* np.reshape(data, data.size): row-major flattening
Flatten(m) == IF m = << >> THEN << >> ELSE Head(m) \o Flatten(Tail(m))

YRev(d, g) == Flatten(Flipud(Reshape(d, g.num_y, g.num_x)))

\* ------------------------------------------------------------- state
VARIABLES
  pc,         \* statement each call is at
  inp,        \* arguments of each call
  temp_file,  \* the call's temp_file local (0: not yet assigned)
  issued,     \* how many uuids uuid4() has handed out
  fs,         \* temp files on disk: name -> [writer, content]
  dec,        \* state of the decoder process of each call
  pipe,       \* proc.stdout of a grib2 call
  data,       \* the call's data local
  result,     \* how the call ended
  spawned,    \* subprocess.call / Popen invocations made by the call
  fsops,      \* filesystem calls made by the call
  printed     \* the debug line was printed

vars == <<pc, inp, temp_file, issued, fs, dec, pipe, data, result, spawned,
          fsops, printed>>

NoResult == [kind |-> "none", exc |-> "", data |-> << >>]

InitLocals ==
  /\ temp_file = [p \in Procs |-> 0]
  /\ issued = 0
  /\ fs = << >>
  /\ dec = [p \in Procs |-> "none"]
  /\ pipe = [p \in Procs |-> << >>]
  /\ data = [p \in Procs |-> << >>]
  /\ result = [p \in Procs |-> NoResult]
  /\ spawned = [p \in Procs |-> 0]
  /\ fsops = [p \in Procs |-> {}]
  /\ printed = [p \in Procs |-> FALSE]

\* one call, any arguments
Init ==
  /\ \E i \in Inputs : inp = [p \in Procs |-> IF p = 1 THEN i ELSE NoInput]
  /\ pc = [p \in Procs |-> IF p = 1 THEN "isfile" ELSE "idle"]
  /\ InitLocals

\* NumCalls grib1 calls on the same file, threads of one program
InitConc ==
  /\ inp \in [Procs -> ConcInputs]
  /\ pc = [p \in Procs |-> "isfile"]
  /\ InitLocals

Goto(p, l) == pc' = [pc EXCEPT ![p] = l]

Raise(p, e) ==
  /\ pc' = [pc EXCEPT ![p] = "done"]
  /\ result' = [result EXCEPT ![p] = [kind |-> "raise", exc |-> e, data |-> << >>]]

FsOp(p, op) == fsops' = [fsops EXCEPT ![p] = @ \cup {op}]

Exists(name) == name \in DOMAIN fs
RemoveFile(name) == [n \in DOMAIN fs \ {name} |-> fs[n]]
WriteFile(name, p, content) ==
  [n \in DOMAIN fs \cup {name} |->
     IF n = name THEN [writer |-> p, content |-> content] ELSE fs[n]]

\* ------------------------------------------------------------- actions
\* if not os.path.isfile(file): raise ReadingError('Grib file not found')
CheckFile(p) ==
  /\ pc[p] = "isfile"
  /\ FsOp(p, "isfile")
  /\ IF inp[p].file = "present"
       THEN Goto(p, "uuid") /\ UNCHANGED result
       ELSE Raise(p, NotFound)
  /\ UNCHANGED <<inp, temp_file, issued, fs, dec, pipe, data, spawned, printed>>

\* temp_file = str(uuid.uuid4()) + '.bin'
GenTempName(p) ==
  /\ pc[p] = "uuid"
  /\ temp_file' = [temp_file EXCEPT ![p] = Uuid4(issued)]
  /\ issued' = issued + 1
  /\ Goto(p, "build")
  /\ UNCHANGED <<inp, fs, dec, pipe, data, result, spawned, fsops, printed>>

\* the grib_type dispatch building wgrib_call, and the debug print
BuildCall(p) ==
  /\ pc[p] = "build"
  /\ IF WgribProgram(inp[p].grib_type) = "raise"
       THEN Raise(p, UnsupportedFormat) /\ UNCHANGED printed
       ELSE /\ Goto(p, "launch")
            /\ printed' = [printed EXCEPT ![p] = inp[p].debug]
            /\ UNCHANGED result
  /\ UNCHANGED <<inp, temp_file, issued, fs, dec, pipe, data, spawned, fsops>>

\* try: subprocess.call(...) / subprocess.Popen(...); either may raise.
\* A raising subprocess.call may or may not have left the temp file behind.
Launch(p) ==
  /\ pc[p] = "launch"
  /\ spawned' = [spawned EXCEPT ![p] = @ + 1]
  /\ \E raises \in BOOLEAN, created \in BOOLEAN :
       IF raises
         THEN /\ dec' = [dec EXCEPT ![p] = "launchfail"]
              /\ fs' = IF created /\ inp[p].grib_type = "grib1"
                         THEN WriteFile(temp_file[p], p, << >>)
                         ELSE fs
              /\ Goto(p, "except")
         ELSE /\ ~created
              /\ dec' = [dec EXCEPT ![p] = "running"]
              /\ fs' = fs
              /\ Goto(p, "read")
  /\ UNCHANGED <<inp, temp_file, issued, pipe, data, result, fsops, printed>>

\* The shell pipeline runs to its end: it writes the matched payload to the
\* temp file (grib1) or to stdout (grib2), or dies without output.
DecoderRun(p) ==
  /\ dec[p] = "running"
  /\ \E crashed \in BOOLEAN :
       IF crashed
         THEN /\ dec' = [dec EXCEPT ![p] = "crashed"]
              /\ UNCHANGED <<fs, pipe>>
         ELSE /\ dec' = [dec EXCEPT ![p] = "ok"]
              /\ IF inp[p].grib_type = "grib1"
                   THEN /\ fs' = WriteFile(temp_file[p], p, Decoded(inp[p]))
                        /\ UNCHANGED pipe
                   ELSE /\ pipe' = [pipe EXCEPT ![p] = Decoded(inp[p])]
                        /\ UNCHANGED fs
  /\ UNCHANGED <<pc, inp, temp_file, issued, data, result, spawned, fsops, printed>>

\* except Exception as e: os.remove(temp_file) for grib1; raise ReadingError
Except(p) ==
  /\ pc[p] = "except"
  /\ IF inp[p].grib_type = "grib1"
       THEN /\ FsOp(p, "remove")
            /\ IF Exists(temp_file[p])
                 THEN fs' = RemoveFile(temp_file[p]) /\ Raise(p, DecodeError)
                 ELSE fs' = fs /\ Raise(p, FileNotFoundError)
       ELSE /\ Raise(p, DecodeError)
            /\ UNCHANGED <<fs, fsops>>
  /\ UNCHANGED <<inp, temp_file, issued, dec, pipe, data, spawned, printed>>

\* np.fromfile(temp_file) / np.frombuffer(proc.stdout.read()), once the
\* decoder has ended (subprocess.call has returned, stdout is at EOF)
Read(p) ==
  /\ pc[p] = "read"
  /\ dec[p] \in {"ok", "crashed"}
  /\ IF inp[p].grib_type = "grib1"
       THEN /\ FsOp(p, "fromfile")
            /\ IF Exists(temp_file[p])
                 THEN /\ data' = [data EXCEPT ![p] = fs[temp_file[p]].content]
                      /\ Goto(p, "size")
                      /\ UNCHANGED result
                 ELSE Raise(p, FileNotFoundError) /\ UNCHANGED data
       ELSE /\ data' = [data EXCEPT ![p] = pipe[p]]
            /\ Goto(p, "size")
            /\ UNCHANGED <<result, fsops>>
  /\ UNCHANGED <<inp, temp_file, issued, fs, dec, pipe, spawned, printed>>

\* if data.size == 0: raise ReadingError('No grib record found')
CheckSize(p) ==
  /\ pc[p] = "size"
  /\ IF IsEmpty(data[p])
       THEN Raise(p, RecordNotFound)
       ELSE Goto(p, "remove") /\ UNCHANGED result
  /\ UNCHANGED <<inp, temp_file, issued, fs, dec, pipe, data, spawned, fsops, printed>>

\* if grib_type == 'grib1': os.remove(temp_file)
Remove(p) ==
  /\ pc[p] = "remove"
  /\ IF inp[p].grib_type = "grib1"
       THEN /\ FsOp(p, "remove")
            /\ IF Exists(temp_file[p])
                 THEN /\ fs' = RemoveFile(temp_file[p])
                      /\ Goto(p, "flip")
                      /\ UNCHANGED result
                 ELSE fs' = fs /\ Raise(p, FileNotFoundError)
       ELSE /\ Goto(p, "flip")
            /\ UNCHANGED <<fs, fsops, result>>
  /\ UNCHANGED <<inp, temp_file, issued, dec, pipe, data, spawned, printed>>

\* if yrev: reshape to (grid.num_y, grid.num_x), flipud, reshape back
Flip(p) ==
  /\ pc[p] = "flip"
  /\ IF ~inp[p].yrev
       THEN Goto(p, "return") /\ UNCHANGED <<data, result>>
       ELSE IF inp[p].grid = NoGrid
         THEN Raise(p, NoGridError) /\ UNCHANGED data
         ELSE LET g == inp[p].grid[1] IN
              IF CanReshape(Len(data[p]), g.num_y, g.num_x)
                THEN /\ data' = [data EXCEPT ![p] = YRev(data[p], g)]
                     /\ Goto(p, "return")
                     /\ UNCHANGED result
                ELSE Raise(p, ReshapeError) /\ UNCHANGED data
  /\ UNCHANGED <<inp, temp_file, issued, fs, dec, pipe, spawned, fsops, printed>>

\* return data
Return(p) ==
  /\ pc[p] = "return"
  /\ pc' = [pc EXCEPT ![p] = "done"]
  /\ result' = [result EXCEPT ![p] = [kind |-> "return", exc |-> "", data |-> data[p]]]
  /\ UNCHANGED <<inp, temp_file, issued, fs, dec, pipe, data, spawned, fsops, printed>>

Next ==
  \E p \in Procs :
    \/ CheckFile(p)
    \/ GenTempName(p)
    \/ BuildCall(p)
    \/ Launch(p)
    \/ DecoderRun(p)
    \/ Except(p)
    \/ Read(p)
    \/ CheckSize(p)
    \/ Remove(p)
    \/ Flip(p)
    \/ Return(p)

Spec == Init /\ [][Next]_vars
SpecConc == InitConc /\ [][Next]_vars


\* ------------------------------------------------------------- properties
Done(p) == pc[p] = "done"
Raised(p, e) == Done(p) /\ result[p].kind = "raise" /\ result[p].exc = e
Returned(p) == Done(p) /\ result[p].kind = "return"
Recognized(p) == inp[p].grib_type \in {"grib1", "grib2"}
Called(p) == pc[p] # "idle"

\* C1: a call that ends with NotFound, UnsupportedFormat or the
\* InvalidConfiguration of "yrev without grid" has spawned no process.
C1_InputErrorsBeforeSpawn ==
  \A p \in Procs :
    (Raised(p, NotFound) \/ Raised(p, UnsupportedFormat) \/ Raised(p, NoGridError))
      => spawned[p] = 0

\* C2: once a grib1 call has finished, however it ended, the temp file it
\* named does not exist.
C2_TempFileGoneAtExit ==
  \A p \in Procs :
    (Done(p) /\ inp[p].grib_type = "grib1" /\ temp_file[p] # 0)
      => ~Exists(temp_file[p])

\* C3: yrev without grid, on an existing file with a recognized grib_type,
\* always ends with InvalidConfiguration, whatever the decoder does.
C3_YrevWithoutGridAlwaysInvalid ==
  \A p \in Procs :
    (Done(p) /\ inp[p].file = "present" /\ Recognized(p)
       /\ inp[p].yrev /\ inp[p].grid = NoGrid)
      => (result[p].kind = "raise" /\ result[p].exc \in InvalidConfiguration)

\* C4 (as stated): an unrecognized grib_type always ends with
\* UnsupportedFormat, existing file or not, with no filesystem access and
\* no process spawned.
C4_UnsupportedWithoutFilesystem ==
  \A p \in Procs :
    (Done(p) /\ ~Recognized(p))
      => (Raised(p, UnsupportedFormat) /\ fsops[p] = {} /\ spawned[p] = 0)

\* C4 (amended): an unrecognized grib_type ends with UnsupportedFormat when
\* the file exists and with NotFound when it does not; the only filesystem
\* access of the call is the existence test, it creates no temp file and
\* spawns no process.
C4_UnsupportedAfterFileCheck ==
  \A p \in Procs :
    (Called(p) /\ ~Recognized(p))
      => /\ spawned[p] = 0
         /\ fsops[p] \subseteq {"isfile"}
         /\ fs = << >>
         /\ Done(p) =>
              /\ fsops[p] = {"isfile"}
              /\ Raised(p, IF inp[p].file = "present"
                             THEN UnsupportedFormat ELSE NotFound)

C4_Witness ==
  \E p \in Procs :
    /\ ~Recognized(p) /\ inp[p].file = "present"
    /\ Raised(p, UnsupportedFormat)

\* C5: a decoder that was launched and then crashed makes the call end with
\* DecodeError, for either grib_type.
C5_CrashIsDecodeError ==
  \A p \in Procs :
    (Done(p) /\ dec[p] = "crashed") => Raised(p, DecodeError)

\* C6: when the decoder runs to its end and no record matches (zero
\* elements decoded), the call ends with RecordNotFound, for both
\* grib_types; no call returns an empty array.
C6_NoMatchIsRecordNotFound ==
  \A p \in Procs :
    /\ (Done(p) /\ dec[p] = "ok" /\ Decoded(inp[p]) = << >>)
         => Raised(p, RecordNotFound)
    /\ Returned(p) => result[p].data # << >>

C6_Witness ==
  \E p \in Procs :
    /\ dec[p] = "ok" /\ Decoded(inp[p]) = << >>
    /\ inp[p].grib_type = "grib2"
    /\ Raised(p, RecordNotFound)

C8_RowReversal ==
  \A p \in Procs :
    Returned(p) =>
      LET d == Decoded(inp[p])
          out == result[p].data
      IN IF inp[p].yrev
           THEN /\ inp[p].grid # NoGrid
                /\ LET R == inp[p].grid[1].num_y
                       C == inp[p].grid[1].num_x
                   IN /\ Len(out) = R * C
                      /\ \A r \in 0..(R - 1), c \in 0..(C - 1) :
                           out[r * C + c + 1] = d[(R - 1 - r) * C + c + 1]
                      /\ YRev(out, inp[p].grid[1]) = d
           ELSE out = d

C8_Witness ==
  \E p \in Procs :
    /\ Returned(p) /\ inp[p].yrev /\ inp[p].grid # NoGrid
    /\ inp[p].grid[1].num_y = 3 /\ inp[p].grid[1].num_x = 2
    /\ result[p].data = <<15, 16, 13, 14, 11, 12>>

\* C9: concurrent grib1 calls never hold the same temp-file name, the temp
\* file a call is about to read or delete was written by its own decoder,
\* and a call that returns returns the payload of its own selector.
C9_NoInterference ==
  /\ \A p, q \in Procs :
       (p # q /\ temp_file[p] # 0 /\ temp_file[q] # 0)
         => temp_file[p] # temp_file[q]
  /\ \A p \in Procs :
       (pc[p] \in {"read", "size", "remove", "except"} /\ Exists(temp_file[p]))
         => fs[temp_file[p]].writer = p
  /\ \A p \in Procs : Returned(p) => result[p].data = Decoded(inp[p])

C9_Witness ==
  \E p, q \in Procs :
    /\ p # q
    /\ pc[p] = "remove" /\ pc[q] = "remove"
    /\ Exists(temp_file[p]) /\ Exists(temp_file[q])
    /\ data[p] = <<1, 2, 3, 4>> /\ data[q] = <<11, 12, 13, 14, 15, 16>>

\* C10: a grib1 call whose decoder launch raised ends with DecodeError,
\* whether or not the temp file had been created.
C10_LaunchFailureIsDecodeError ==
  \A p \in Procs :
    (Done(p) /\ inp[p].grib_type = "grib1" /\ dec[p] = "launchfail")
      => Raised(p, DecodeError)

====
